---- MODULE Spec2Model ----
(***************************************************************************)
(* cashtx: reconciliation of Square cash-drawer PAID_OUT events against    *)
(* Xero invoices (src/src/main.rs).                                        *)
(*                                                                         *)
(* Representation of values                                                *)
(*   String          sequence of one-character strings                     *)
(*   Option<T>       <<>> for None, <<x>> for Some(x)                      *)
(*   f64             [huge |-> BOOLEAN, v |-> Int]. A finite value inside  *)
(*                   the range of rust_decimal::Decimal has huge = FALSE;  *)
(*                   v then counts half minor units (half pence) for a     *)
(*                   value in minor units (ShiftEventMoney.amount) and     *)
(*                   thousandths of a major unit for a value in major      *)
(*                   units (Invoice amounts, PaymentRequestObject.amount). *)
(*                   huge = TRUE is a positive f64 above Decimal::MAX      *)
(*                   (1e30 is valid JSON and a valid f64), for which       *)
(*                   Decimal::from_f64 returns None.                       *)
(*   Decimal         Int, in the unit of the f64 it was converted from:    *)
(*                   thousandths of a major unit once divided by 100       *)
(***************************************************************************)
EXTENDS Integers, Sequences, FiniteSets, TLC

VARIABLES pc, exit, exclusions, invoices, shifts, si, events, ei,
          unmatched, matched, already_paid,
          called, event, result, chosen, fetched, payment_objects, put

vars == <<pc, exit, exclusions, invoices, shifts, si, events, ei,
          unmatched, matched, already_paid,
          called, event, result, chosen, fetched, payment_objects, put>>

(***************************************************************************)
(* Bounds of the model.                                                    *)
(***************************************************************************)
MaxInvoices == 3
MaxEvents == 3

(***************************************************************************)
(* Helpers on sequences.                                                   *)
(***************************************************************************)
None == <<>>

Some(x) == <<x>>

SeqsUpTo(S, n) == UNION {[1..k -> S] : k \in 0..n}

Max(a, b) == IF a >= b THEN a ELSE b

RECURSIVE Filter(_, _)
\* Iterator::filter(..).collect(): the elements of s for which keep[i] holds,
\* in the order of s.
Filter(s, keep) ==
    IF s = <<>> THEN <<>>
    ELSE LET rest == Filter(Tail(s), [i \in 1..(Len(s) - 1) |-> keep[i + 1]])
         IN IF keep[1] THEN <<Head(s)>> \o rest ELSE rest

(***************************************************************************)
(* f64 and Decimal.                                                        *)
(***************************************************************************)
F(v) == [huge |-> FALSE, v |-> v]

Huge == [huge |-> TRUE, v |-> 1]

\* x > 0.0 on f64
gt_zero(x) == x.v > 0

\* Decimal::from_f64(x): None when x is not representable as a Decimal.
from_f64(x) == IF x.huge THEN None ELSE Some(x.v)

\* f64 / 100.0 and Decimal / Decimal::from(100): a value in minor units, held
\* in half minor units, becomes a value in major units, held in thousandths.
div_100(v) == 5 * v

\* Decimal::normalize().round_dp(2): banker's rounding (midpoint to even) to
\* two fractional digits; normalize() only strips trailing zeros.
round_dp_2(d) ==
    LET q == d \div 10
        r == d % 10
    IN  IF r < 5 THEN 10 * q
        ELSE IF r > 5 THEN 10 * (q + 1)
        ELSE IF q % 2 = 0 THEN 10 * q
        ELSE 10 * (q + 1)

\* ShiftEventMoney::as_dec: Decimal::from_f64(amount / 100.0).unwrap().to_f64()
as_dec(money) == F(div_100(money.amount.v))

(***************************************************************************)
(* Contact similarity.                                                     *)
(***************************************************************************)
RECURSIVE lcs_len(_, _)
\* length of the longest common subsequence of two character sequences
lcs_len(a, b) ==
    IF a = <<>> \/ b = <<>> THEN 0
    ELSE IF Head(a) = Head(b) THEN 1 + lcs_len(Tail(a), Tail(b))
    ELSE Max(lcs_len(Tail(a), b), lcs_len(a, Tail(b)))

\* rapidfuzz::distance::lcs_seq::normalized_similarity(a, b) >= 0.2.
\* The library computes 1.0 - dist / maximum in f64, with maximum the longer
\* length, dist = maximum - lcs, and a normalized distance of 0.0 when
\* maximum = 0.  When lcs / maximum is exactly 1/5 the f64 result is
\* 1.0 - 0.8 = 0.19999999999999996, which is below the f64 0.2; every other
\* ratio compares as the exact quotient does.
similarity_at_least_threshold(a, b) ==
    LET maximum == Max(Len(a), Len(b))
    IN  IF maximum = 0 THEN TRUE ELSE 5 * lcs_len(a, b) > maximum

\* fuzzy_matches_contact without the early return on a missing description
fuzzy_matches_contact_none_matches(ev, contact) ==
    IF ev.description = None THEN TRUE
    ELSE similarity_at_least_threshold(ev.description[1], contact.name)

fuzzy_matches_contact(ev, contact) ==
    IF ev.description = None THEN FALSE
    ELSE similarity_at_least_threshold(ev.description[1], contact.name)

(***************************************************************************)
(* GetInvoicesResponse::find_match                                         *)
(***************************************************************************)
Reverse(s) == [i \in 1..Len(s) |-> s[Len(s) + 1 - i]]

MatchResult(kind, invs) == [kind |-> kind, invoices |-> invs]

\* find_match unwinds: an unwrap() on a None Decimal
Panicked == MatchResult("Panic", <<>>)

\* event_dec: Decimal::from_f64(amount).unwrap().div(100).normalize().round_dp(2)
event_dec_of(ev) == round_dp_2(div_100(from_f64(ev.event_money.amount)[1]))

\* the type filter left out
type_filter_any(inv) == TRUE

\* .filter(|inv| inv.invoice_type == InvoiceType::AccPay)
type_filter(inv) == inv.invoice_type = "ACCPAY"

\* the amount filter left out
amount_filter_any(inv, event_dec) == TRUE

\* .filter(|inv| amount_due == event_dec || amount_paid == event_dec), both
\* unwrapped, normalized and rounded
amount_filter(inv, event_dec) ==
    LET amount_due == round_dp_2(from_f64(inv.amount_due)[1])
        amount_paid == round_dp_2(from_f64(inv.amount_paid)[1])
    IN  amount_due = event_dec \/ amount_paid = event_dec

\* the two unwrap() calls of the amount filter succeed
amount_filter_unwraps(inv) ==
    from_f64(inv.amount_due) # None /\ from_f64(inv.amount_paid) # None

\* the invoices that reach the amount filter: the type and contact filters
by_type_and_contact(invs, ev) ==
    LET by_type == Filter(invs, [i \in 1..Len(invs) |-> type_filter(invs[i])])
    IN  Filter(by_type,
               [i \in 1..Len(by_type) |->
                    fuzzy_matches_contact(ev, by_type[i].contact)])

\* matching_by_amount, when no unwrap() fails
matching_by_amount(invs, ev) ==
    LET cands == by_type_and_contact(invs, ev)
    IN  Filter(cands,
               [i \in 1..Len(cands) |-> amount_filter(cands[i], event_dec_of(ev))])

\* .partition(|inv| inv.amount_paid > 0.0)
is_paid(inv) == gt_zero(inv.amount_paid)

\* classify with the unpaid candidates looked at before the paid ones
classify_unpaid_first(matching) ==
    LET paid == Filter(matching, [i \in 1..Len(matching) |-> is_paid(matching[i])])
        unpaid == Filter(matching, [i \in 1..Len(matching) |-> ~is_paid(matching[i])])
    IN  IF matching = <<>> THEN MatchResult("None", <<>>)
        ELSE IF Len(unpaid) = 1 THEN MatchResult("UnpaidSingle", <<unpaid[1]>>)
        ELSE IF Len(unpaid) > 1 THEN MatchResult("UnpaidMultiple", unpaid)
        ELSE IF paid # <<>> THEN MatchResult("AlreadyPaid", <<>>)
        ELSE MatchResult("None", <<>>)

\* classify with the unpaid candidates collected in reverse
classify_reversed(matching) ==
    LET paid == Filter(matching, [i \in 1..Len(matching) |-> is_paid(matching[i])])
        unpaid == Filter(matching, [i \in 1..Len(matching) |-> ~is_paid(matching[i])])
    IN  IF matching = <<>> THEN MatchResult("None", <<>>)
        ELSE IF paid # <<>> THEN MatchResult("AlreadyPaid", <<>>)
        ELSE IF Len(unpaid) = 0 THEN MatchResult("None", <<>>)
        ELSE IF Len(unpaid) = 1 THEN MatchResult("UnpaidSingle", <<unpaid[1]>>)
        ELSE MatchResult("UnpaidMultiple", Reverse(unpaid))

\* from the is_empty() test to the final match on unpaid.len()
classify(matching) ==
    LET paid == Filter(matching, [i \in 1..Len(matching) |-> is_paid(matching[i])])
        unpaid == Filter(matching, [i \in 1..Len(matching) |-> ~is_paid(matching[i])])
    IN  IF matching = <<>> THEN MatchResult("None", <<>>)
        ELSE IF paid # <<>> THEN MatchResult("AlreadyPaid", <<>>)
        ELSE IF Len(unpaid) = 0 THEN MatchResult("None", <<>>)
        ELSE IF Len(unpaid) = 1 THEN MatchResult("UnpaidSingle", <<unpaid[1]>>)
        ELSE MatchResult("UnpaidMultiple", unpaid)

find_match(invs, ev) ==
    IF from_f64(ev.event_money.amount) = None THEN Panicked
    ELSE LET cands == by_type_and_contact(invs, ev)
         IN  IF \E i \in 1..Len(cands) : ~amount_filter_unwraps(cands[i])
             THEN Panicked
             ELSE classify(matching_by_amount(invs, ev))

(***************************************************************************)
(* Input values.                                                           *)
(***************************************************************************)
Contact(name) == [name |-> name]

Invoice(type, name, due, paid) ==
    [invoice_type |-> type, invoice_id |-> 0, amount_due |-> due,
     amount_paid |-> paid, contact |-> Contact(name)]

ShiftEvent(type, amount, desc) ==
    [event_type |-> type, event_money |-> [amount |-> amount],
     description |-> desc]

\* An invoice list as the Invoices endpoint returns it: InvoiceID is unique,
\* here the position in the response.
Numbered(kinds) ==
    [i \in 1..Len(kinds) |-> [kinds[i] EXCEPT !.invoice_id = i]]

NameAbc == <<"a", "b", "c">>

NameXy == <<"x", "y">>

NameAxxxx == <<"a", "x", "x", "x", "x">>

DescAb == Some(<<"a", "b">>)

DescZ == Some(<<"z">>)

MatchInvoiceKinds ==
    { Invoice("ACCPAY", NameAbc, F(20), F(0)),
      Invoice("ACCPAY", NameAbc, F(25), F(0)),
      Invoice("ACCPAY", NameAbc, F(0), F(20)),
      Invoice("ACCPAY", NameAbc, F(20), F(4)),
      Invoice("ACCPAY", NameAbc, F(30), F(0)),
      Invoice("ACCPAY", NameAbc, F(30), F(-20)),
      Invoice("ACCPAY", NameAbc, Huge, F(0)),
      Invoice("ACCPAY", NameXy, F(20), F(0)),
      Invoice("ACCPAY", NameAxxxx, F(20), F(0)),
      Invoice("ACCREC", NameAbc, F(20), F(0)),
      Invoice("ACCREC", NameAbc, Huge, F(0)) }

MatchInvoiceLists ==
    {Numbered(kinds) : kinds \in SeqsUpTo(MatchInvoiceKinds, MaxInvoices)}

MatchEvents ==
    {ShiftEvent("PAID_OUT", a, d) :
        a \in {F(0), F(4), F(5), F(6), F(-4), Huge},
        d \in {None, DescAb, DescZ}}

InitialResult == MatchResult("None", <<>>)

NoEvent == ShiftEvent("NO_SALE", F(0), None)

(***************************************************************************)
(* find_match on its own: any event against any invoice list.              *)
(***************************************************************************)
InitMatch ==
    /\ pc = "find_match"
    /\ exit = "running"
    /\ exclusions = <<>>
    /\ invoices \in MatchInvoiceLists
    /\ shifts = <<>>
    /\ si = 1
    /\ events = <<>>
    /\ ei = 1
    /\ unmatched = <<>>
    /\ matched = <<>>
    /\ already_paid = <<>>
    /\ called = FALSE
    /\ event \in MatchEvents
    /\ result = InitialResult
    /\ chosen = <<>>
    /\ fetched = <<>>
    /\ payment_objects = <<>>
    /\ put = "none"

CallFindMatch ==
    /\ pc = "find_match"
    /\ pc' = "done"
    /\ result' = find_match(invoices, event)
    /\ called' = TRUE
    /\ exit' = IF result'.kind = "Panic" THEN "panic" ELSE "ok"
    /\ UNCHANGED <<exclusions, invoices, shifts, si, events, ei, unmatched,
                   matched, already_paid, event, chosen, fetched,
                   payment_objects, put>>

NextMatch == CallFindMatch

SpecMatch == InitMatch /\ [][NextMatch]_vars

(***************************************************************************)
(* is_excluded                                                             *)
(***************************************************************************)
\* char::to_lowercase on the characters that occur in the inputs
lower_char(c) == IF c = "A" THEN "a" ELSE IF c = "Z" THEN "z" ELSE c

to_lowercase(s) == [i \in 1..Len(s) |-> lower_char(s[i])]

is_whitespace(c) == c \in {" ", "\n"}

RECURSIVE trim_start(_)
trim_start(s) ==
    IF s # <<>> /\ is_whitespace(Head(s)) THEN trim_start(Tail(s)) ELSE s

\* str::trim
trim(s) == Reverse(trim_start(Reverse(trim_start(s))))

\* Regex::new(pattern) is Ok.  The patterns of the model are literals, and
\* the one-character pattern "(" that does not compile.
regex_compiles(pattern) == \A i \in 1..Len(pattern) : pattern[i] # "("

\* Regex::is_match for a literal pattern: an unanchored search
is_match(pattern, text) ==
    \E k \in 0..(Len(text) - Len(pattern)) :
        SubSeq(text, k + 1, k + Len(pattern)) = pattern

\* is_excluded, when the pattern compiles
is_excluded(ev, pattern) ==
    is_match(pattern,
             trim(to_lowercase(IF ev.description = None THEN <<>>
                               ELSE ev.description[1])))

(***************************************************************************)
(* prompt_invoice_match                                                    *)
(***************************************************************************)
Digits == <<"0", "1", "2", "3", "4", "5", "6", "7", "8", "9">>

is_digit(c) == \E d \in 1..Len(Digits) : Digits[d] = c

digit_value(c) == (CHOOSE d \in 1..Len(Digits) : Digits[d] = c) - 1

\* str::parse::<usize>() is Ok: a non-empty run of decimal digits
parses_usize(s) == s # <<>> /\ \A i \in 1..Len(s) : is_digit(s[i])

RECURSIVE parse_usize(_)
parse_usize(s) ==
    IF s = <<>> THEN 0
    ELSE 10 * parse_usize(SubSeq(s, 1, Len(s) - 1)) + digit_value(s[Len(s)])

Picked(kind, inv) == [kind |-> kind, invoice |-> inv]

\* prompt_invoice_match with the candidates counted from 1
prompt_invoice_match_one_based(line, invs) ==
    LET text == trim(line)
    IN  IF text = <<>> THEN Picked("None", <<>>)
        ELSE IF ~parses_usize(text) THEN Picked("Panic", <<>>)
        ELSE LET chosen_int == parse_usize(text)
             IN  IF chosen_int >= 1 /\ chosen_int <= Len(invs)
                 THEN Picked("Some", <<invs[chosen_int]>>)
                 ELSE Picked("None", <<>>)

\* the value prompt_invoice_match returns for the line read from stdin, or
\* the panic of chosen.parse().unwrap()
prompt_invoice_match(line, invs) ==
    LET text == trim(line)
    IN  IF text = <<>> THEN Picked("None", <<>>)
        ELSE IF ~parses_usize(text) THEN Picked("Panic", <<>>)
        ELSE LET chosen_int == parse_usize(text)
             IN  IF chosen_int < Len(invs)
                 THEN Picked("Some", <<invs[chosen_int + 1]>>)
                 ELSE Picked("None", <<>>)

(***************************************************************************)
(* main: inputs                                                            *)
(***************************************************************************)
\* created_at: <<date, time of day>>
Shift(id, state) == [id |-> id, state |-> state, created_at |-> <<100 + id, 9>>]

\* DateTime::date_naive
date_naive(created_at) == created_at[1]

\* the responses of the shifts endpoint
ShiftLists ==
    {[i \in 1..Len(states) |-> Shift(i, states[i])] :
        states \in {<<"CLOSED">>, <<"OPEN", "CLOSED">>,
                    <<"CLOSED", "ENDED", "CLOSED">>}}

DescSpaceZb == Some(<<" ", "Z", "b">>)

DriverEvents ==
    { ShiftEvent("PAID_OUT", F(4), DescAb),
      ShiftEvent("PAID_OUT", F(5), None),
      ShiftEvent("PAID_IN", F(4), DescAb),
      ShiftEvent("PAID_OUT", F(4), DescSpaceZb),
      ShiftEvent("PAID_OUT", Huge, DescAb) }

NameZq == <<"Z", "q">>

DriverInvoiceLists ==
    { Numbered(<<Invoice("ACCPAY", NameZq, F(20), F(20)),
                 Invoice("ACCPAY", NameAbc, F(20), F(0)),
                 Invoice("ACCPAY", NameAbc, F(25), F(0))>>),
      Numbered(<<Invoice("ACCREC", NameAbc, F(20), F(0)),
                 Invoice("ACCPAY", NameAbc, F(20), F(0))>>),
      Numbered(<<Invoice("ACCPAY", NameAbc, F(20), F(0)),
                 Invoice("ACCPAY", NameAbc, Huge, F(0))>>) }

\* args.exclusions: empty, a literal, a pattern that does not compile
ExclusionPatterns == {<<>>, <<"z">>, <<"(">>}

\* the lines the operator may type at the prompt
InputLines ==
    { <<"\n">>, <<"0", "\n">>, <<" ", "1", "\n">>, <<"2", "\n">>,
      <<"x", "\n">> }

AccountCode == <<"0", "9", "0">>

Reference == "Auto-reconciled using cashtx tool"

\* the events fetched so far, over all shifts
FetchedCount ==
    LET RECURSIVE count(_)
        count(f) == IF f = <<>> THEN 0 ELSE Len(Head(f).events) + count(Tail(f))
    IN  count(fetched)

(***************************************************************************)
(* main                                                                    *)
(***************************************************************************)
Init ==
    /\ pc = "get_invoices"
    /\ exit = "running"
    /\ exclusions \in ExclusionPatterns
    /\ invoices = <<>>
    /\ shifts = <<>>
    /\ si = 1
    /\ events = <<>>
    /\ ei = 1
    /\ unmatched = <<>>
    /\ matched = <<>>
    /\ already_paid = <<>>
    /\ called = FALSE
    /\ event = NoEvent
    /\ result = InitialResult
    /\ chosen = <<>>
    /\ fetched = <<>>
    /\ payment_objects = <<>>
    /\ put = "none"

\* main returns: Ok(()) is "ok", an error propagated by ? is "err"
Return(how) == pc' = "done" /\ exit' = how

\* GET Invoices
GetInvoices ==
    /\ pc = "get_invoices"
    /\ \/ \E body \in DriverInvoiceLists :
             invoices' = body /\ pc' = "get_shifts" /\ exit' = exit
       \/ invoices' = invoices /\ Return("ok")
       \/ invoices' = invoices /\ Return("err")
    /\ UNCHANGED <<exclusions, shifts, si, events, ei, unmatched, matched,
                   already_paid, called, event, result, chosen, fetched,
                   payment_objects, put>>

\* GET cash-drawers/shifts
GetShifts ==
    /\ pc = "get_shifts"
    /\ \/ \E body \in ShiftLists :
             shifts' = body /\ pc' = "shifts" /\ exit' = exit
       \/ shifts' = shifts /\ Return("ok")
       \/ shifts' = shifts /\ Return("err")
    /\ UNCHANGED <<exclusions, invoices, si, events, ei, unmatched, matched,
                   already_paid, called, event, result, chosen, fetched,
                   payment_objects, put>>

\* for shift in shifts: a shift that is not CLOSED is skipped
SkipShift ==
    /\ pc = "shifts"
    /\ si <= Len(shifts)
    /\ shifts[si].state # "CLOSED"
    /\ si' = si + 1
    /\ UNCHANGED <<pc, exit, exclusions, invoices, shifts, events, ei,
                   unmatched, matched, already_paid, called, event, result,
                   chosen, fetched, payment_objects, put>>

\* GET cash-drawers/shifts/{id}/events for a CLOSED shift
GetShiftEvents ==
    /\ pc = "shifts"
    /\ si <= Len(shifts)
    /\ shifts[si].state = "CLOSED"
    /\ \/ \E body \in SeqsUpTo(DriverEvents, MaxEvents - FetchedCount) :
             /\ events' = body
             /\ ei' = 1
             /\ fetched' = Append(fetched, [shift |-> shifts[si], events |-> body])
             /\ pc' = "events"
             /\ exit' = exit
       \/ UNCHANGED <<events, ei, fetched>> /\ Return("err")
    /\ UNCHANGED <<exclusions, invoices, shifts, si, unmatched, matched,
                   already_paid, called, event, result, chosen,
                   payment_objects, put>>

\* the events of the shift are exhausted: on to the next shift
EndShift ==
    /\ pc = "events"
    /\ ei > Len(events)
    /\ si' = si + 1
    /\ pc' = "shifts"
    /\ UNCHANGED <<exit, exclusions, invoices, shifts, events, ei, unmatched,
                   matched, already_paid, called, event, result, chosen,
                   fetched, payment_objects, put>>

Sets(u, m, a) == [unmatched |-> u, matched |-> m, already_paid |-> a]

\* push_result with the AlreadyPaid arm pushing to unmatched as well
push_result_paid_twice(r, shift, ev) ==
    IF r.kind = "None"
    THEN Sets(Append(unmatched, <<shift, ev>>), matched, already_paid)
    ELSE IF r.kind = "AlreadyPaid"
    THEN Sets(Append(unmatched, <<shift, ev>>), matched, Append(already_paid, ev))
    ELSE IF r.kind = "UnpaidSingle"
    THEN Sets(unmatched, Append(matched, <<shift, ev, r.invoices[1]>>), already_paid)
    ELSE Sets(unmatched, matched, already_paid)

\* the arms of match invoices.find_match(&event) that do not prompt
push_result(r, shift, ev) ==
    IF r.kind = "None"
    THEN Sets(Append(unmatched, <<shift, ev>>), matched, already_paid)
    ELSE IF r.kind = "AlreadyPaid"
    THEN Sets(unmatched, matched, Append(already_paid, ev))
    ELSE IF r.kind = "UnpaidSingle"
    THEN Sets(unmatched, Append(matched, <<shift, ev, r.invoices[1]>>), already_paid)
    ELSE Sets(unmatched, matched, already_paid)

\* one iteration of for event in events, up to the prompt
ProcessEvent ==
    /\ pc = "events"
    /\ ei <= Len(events)
    /\ LET ev == events[ei]
       IN  IF ev.event_type # "PAID_OUT"
           THEN /\ ei' = ei + 1
                /\ UNCHANGED <<pc, exit, unmatched, matched, already_paid,
                               called, event, result>>
           ELSE IF exclusions # <<>> /\ ~regex_compiles(exclusions)
           THEN /\ Return("panic")
                /\ UNCHANGED <<ei, unmatched, matched, already_paid, called,
                               event, result>>
           ELSE IF exclusions # <<>> /\ is_excluded(ev, exclusions)
           THEN /\ ei' = ei + 1
                /\ UNCHANGED <<pc, exit, unmatched, matched, already_paid,
                               called, event, result>>
           ELSE LET r == find_match(invoices, ev)
                    sets == push_result(r, shifts[si], ev)
                IN  /\ called' = TRUE
                    /\ event' = ev
                    /\ result' = r
                    /\ IF r.kind = "Panic"
                       THEN /\ Return("panic")
                            /\ UNCHANGED <<ei, unmatched, matched, already_paid>>
                       ELSE /\ unmatched' = sets.unmatched
                            /\ matched' = sets.matched
                            /\ already_paid' = sets.already_paid
                            /\ exit' = exit
                            /\ IF r.kind = "UnpaidMultiple"
                               THEN pc' = "prompt" /\ ei' = ei
                               ELSE pc' = pc /\ ei' = ei + 1
    /\ UNCHANGED <<exclusions, invoices, shifts, si, events, chosen, fetched,
                   payment_objects, put>>

\* prompt_invoice_match reads a line from stdin (a read that succeeds), and
\* the arm of main that receives its value
PromptInvoiceMatch ==
    /\ pc = "prompt"
    /\ \E line \in InputLines :
          LET picked == prompt_invoice_match(line, result.invoices)
          IN  /\ chosen' = line
              /\ IF picked.kind = "Panic"
                 THEN /\ Return("panic")
                      /\ UNCHANGED <<ei, unmatched, matched>>
                 ELSE /\ pc' = "events"
                      /\ ei' = ei + 1
                      /\ exit' = exit
                      /\ IF picked.kind = "Some"
                         THEN /\ matched' = Append(matched,
                                      <<shifts[si], event, picked.invoice[1]>>)
                              /\ unmatched' = unmatched
                         ELSE /\ unmatched' = Append(unmatched, <<shifts[si], event>>)
                              /\ matched' = matched
    /\ UNCHANGED <<exclusions, invoices, shifts, si, events, already_paid,
                   called, event, result, fetched, payment_objects, put>>

PaymentRequestObject(s, e, i) ==
    [invoice |-> [invoice_id |-> i.invoice_id],
     account |-> [code |-> AccountCode],
     date |-> date_naive(s.created_at),
     amount |-> as_dec(e.event_money),
     reference |-> Reference]

\* build_payment_objects paying the amount due instead of the event amount
build_payment_objects_amount_due(m) ==
    [k \in 1..Len(m) |->
        [PaymentRequestObject(m[k][1], m[k][2], m[k][3])
            EXCEPT !.amount = m[k][3].amount_due]]

\* matched.iter().map(..).collect()
build_payment_objects(m) ==
    [k \in 1..Len(m) |-> PaymentRequestObject(m[k][1], m[k][2], m[k][3])]

\* the loop over the shifts is over: print_progress, the payment objects,
\* and the return when there is none
BuildPayments ==
    /\ pc = "shifts"
    /\ si > Len(shifts)
    /\ payment_objects' = build_payment_objects(matched)
    /\ IF payment_objects' = <<>>
       THEN put' = "skipped" /\ Return("ok")
       ELSE put' = "pending" /\ pc' = "put" /\ exit' = exit
    /\ UNCHANGED <<exclusions, invoices, shifts, si, events, ei, unmatched,
                   matched, already_paid, called, event, result, chosen,
                   fetched>>

\* PUT Payments
PutPayments ==
    /\ pc = "put"
    /\ \/ put' = "ok" /\ Return("ok")
       \/ put' = "failed" /\ Return("ok")
       \/ put' = "error" /\ Return("err")
    /\ UNCHANGED <<exclusions, invoices, shifts, si, events, ei, unmatched,
                   matched, already_paid, called, event, result, chosen,
                   fetched, payment_objects>>

Next ==
    \/ GetInvoices
    \/ GetShifts
    \/ SkipShift
    \/ GetShiftEvents
    \/ EndShift
    \/ ProcessEvent
    \/ PromptInvoiceMatch
    \/ BuildPayments
    \/ PutPayments

Spec == Init /\ [][Next]_vars

(***************************************************************************)
(* The properties, stated on the inputs and the results.                   *)
(***************************************************************************)
\* find_match was called on event and returned result
Returned == called /\ result.kind # "Panic"

\* an amount in canonical decimal form, None when it has none
Normalized(x) == IF x.huge THEN None ELSE Some(round_dp_2(x.v))

\* the event amount, in major units, in canonical decimal form
NormalizedEventAmount(ev) ==
    IF ev.event_money.amount.huge THEN None
    ELSE Some(round_dp_2(div_100(ev.event_money.amount.v)))

Plausible(ev, inv) ==
    /\ ev.description # None
    /\ similarity_at_least_threshold(ev.description[1], inv.contact.name)

AmountMatches(ev, inv) ==
    /\ NormalizedEventAmount(ev) # None
    /\ \/ Normalized(inv.amount_due) = NormalizedEventAmount(ev)
       \/ Normalized(inv.amount_paid) = NormalizedEventAmount(ev)

\* a qualifying candidate: Payable, plausible contact, matching amount
Qualifies(ev, inv) ==
    /\ inv.invoice_type = "ACCPAY"
    /\ Plausible(ev, inv)
    /\ AmountMatches(ev, inv)

\* the qualifying candidates of the current event, in the order of the list
Qualifying == SelectSeq(invoices, LAMBDA inv : Qualifies(event, inv))

SomeQualifyingPaid ==
    \E i \in 1..Len(invoices) :
        Qualifies(event, invoices[i]) /\ invoices[i].amount_paid.v > 0

SomeQualifyingUnpaid ==
    \E i \in 1..Len(invoices) :
        Qualifies(event, invoices[i]) /\ invoices[i].amount_paid.v = 0

IsUnpaidResult == result.kind \in {"UnpaidSingle", "UnpaidMultiple"}

\* C1: whenever find_match returns and some qualifying candidate has
\* amountPaid > 0, the result is AlreadyPaid, whether or not qualifying
\* candidates with amountPaid = 0 are present as well.
C1_PaidTakesPrecedence ==
    (Returned /\ SomeQualifyingPaid) => result.kind = "AlreadyPaid"

\* C1 witness: a paid and an unpaid qualifying candidate in one list
C1_Witness ==
    /\ Returned
    /\ SomeQualifyingPaid
    /\ SomeQualifyingUnpaid
    /\ result.kind = "AlreadyPaid"

\* C2: when no qualifying candidate has amountPaid > 0, one qualifying
\* candidate gives UnpaidSingle carrying it, and two or more give
\* UnpaidMultiple carrying exactly the qualifying candidates in the order of
\* the invoice list.
C2_UnpaidSingleOrMultipleInOrder ==
    (Returned /\ ~SomeQualifyingPaid) =>
        /\ Len(Qualifying) = 1 => result = MatchResult("UnpaidSingle", Qualifying)
        /\ Len(Qualifying) >= 2 => result = MatchResult("UnpaidMultiple", Qualifying)

\* C2 witness: two candidates carried in list order around an invoice that
\* does not qualify
C2_Witness ==
    /\ Returned
    /\ Len(invoices) = 3
    /\ ~Qualifies(event, invoices[2])
    /\ result = MatchResult("UnpaidMultiple", <<invoices[1], invoices[3]>>)

\* C3: for an event without description find_match returns None, whatever
\* the invoices, also Payable ones whose amount equals the event amount.
C3_NoDescriptionNoMatch ==
    (Returned /\ event.description = None) => result.kind = "None"

\* C3 witness: no description, and a Payable invoice with the event's amount
C3_Witness ==
    /\ Returned
    /\ event.description = None
    /\ result.kind = "None"
    /\ \E i \in 1..Len(invoices) :
          invoices[i].invoice_type = "ACCPAY" /\ AmountMatches(event, invoices[i])

\* C4: find_match returns None exactly when no invoice is Payable, plausible
\* and equal to the event amount in its amountDue or its amountPaid.
C4_NoneIffNoCandidate ==
    Returned => (result.kind = "None" <=> Qualifying = <<>>)

\* C4 witness: None although a Receivable invoice and an invoice of an
\* implausible contact have the event's amount
C4_Witness ==
    /\ Returned
    /\ result.kind = "None"
    /\ \E i \in 1..Len(invoices) :
          /\ invoices[i].invoice_type = "ACCREC"
          /\ Plausible(event, invoices[i])
          /\ AmountMatches(event, invoices[i])
    /\ \E i \in 1..Len(invoices) :
          /\ invoices[i].invoice_type = "ACCPAY"
          /\ ~Plausible(event, invoices[i])
          /\ AmountMatches(event, invoices[i])

\* C10 as claimed: every invoice carried by UnpaidSingle or UnpaidMultiple
\* has amountPaid = 0 and a normalized amountDue equal to the normalized event
\* amount, for every event amount, and the amount of the payment built for it
\* (the event amount in major units) equals its amountDue.
C10_Original ==
    (Returned /\ IsUnpaidResult) =>
        \A k \in 1..Len(result.invoices) :
            /\ result.invoices[k].amount_paid = F(0)
            /\ Normalized(result.invoices[k].amount_due) = NormalizedEventAmount(event)
            /\ as_dec(event.event_money) = result.invoices[k].amount_due

\* C10 amended: every invoice carried by UnpaidSingle or UnpaidMultiple has an
\* amountPaid that is not above 0 and a normalized amountDue or amountPaid
\* equal to the normalized event amount; when the normalized event amount is
\* above 0 it is the normalized amountDue that equals it, and the payment
\* amount and the amountDue are equal once both are normalized.
C10_Amended ==
    (Returned /\ IsUnpaidResult) =>
        \A k \in 1..Len(result.invoices) :
            LET inv == result.invoices[k]
            IN  /\ ~(inv.amount_paid.v > 0)
                /\ AmountMatches(event, inv)
                /\ NormalizedEventAmount(event)[1] > 0 =>
                      /\ Normalized(inv.amount_due) = NormalizedEventAmount(event)
                      /\ Normalized(as_dec(event.event_money)) = Normalized(inv.amount_due)

\* C10 witness: an unpaid result for a positive event amount whose carried
\* invoice equals the payment amount only after normalization
C10_Witness ==
    /\ Returned
    /\ IsUnpaidResult
    /\ NormalizedEventAmount(event)[1] > 0
    /\ \E k \in 1..Len(result.invoices) :
          result.invoices[k].amount_due # as_dec(event.event_money)

\* the loop over the shifts has finished
LoopFinished == put # "none"

Excluded(ev) == exclusions # <<>> /\ is_excluded(ev, exclusions)

RECURSIVE EligibleIn(_, _)
\* the events of one shift that are to be reconciled, with their shift
EligibleIn(shift, evs) ==
    IF evs = <<>> THEN <<>>
    ELSE (IF /\ shift.state = "CLOSED"
             /\ Head(evs).event_type = "PAID_OUT"
             /\ ~Excluded(Head(evs))
          THEN <<[shift |-> shift, event |-> Head(evs)]>>
          ELSE <<>>) \o EligibleIn(shift, Tail(evs))

RECURSIVE EligibleOf(_)
EligibleOf(f) ==
    IF f = <<>> THEN <<>>
    ELSE EligibleIn(Head(f).shift, Head(f).events) \o EligibleOf(Tail(f))

\* the PaidOut events of Closed shifts that are not excluded, in input order
Eligible == EligibleOf(fetched)

RECURSIVE Partitions(_, _, _, _)
\* m, a and u, taken together, hold each entry of e exactly once, each of
\* them in the order of e
Partitions(m, a, u, e) ==
    IF e = <<>> THEN m = <<>> /\ a = <<>> /\ u = <<>>
    ELSE \/ /\ m # <<>>
            /\ Head(m)[1] = Head(e).shift
            /\ Head(m)[2] = Head(e).event
            /\ Partitions(Tail(m), a, u, Tail(e))
         \/ /\ a # <<>>
            /\ Head(a) = Head(e).event
            /\ Partitions(m, Tail(a), u, Tail(e))
         \/ /\ u # <<>>
            /\ Head(u) = <<Head(e).shift, Head(e).event>>
            /\ Partitions(m, a, Tail(u), Tail(e))

\* C5: after the loop, matched, alreadyPaid and unmatched hold every PaidOut
\* event of a Closed shift that is not excluded exactly once between them and
\* nothing else, each set in input order.
C5_ThreeSetsPartitionEligible ==
    LoopFinished => Partitions(matched, already_paid, unmatched, Eligible)

\* C5 witness: a finished run with a matched and an unmatched event, a shift
\* that is not Closed and a PaidOut event that the pattern excludes
C5_Witness ==
    /\ LoopFinished
    /\ matched # <<>>
    /\ unmatched # <<>>
    /\ \E i \in 1..Len(shifts) : shifts[i].state # "CLOSED"
    /\ \E i \in 1..Len(fetched) : \E k \in 1..Len(fetched[i].events) :
          /\ fetched[i].events[k].event_type = "PAID_OUT"
          /\ Excluded(fetched[i].events[k])

\* the line typed at the prompt is an index into a list of n candidates
ValidIndex(line, n) == parses_usize(trim(line)) /\ parse_usize(trim(line)) < n

\* C6: at the prompt for an UnpaidMultiple result, a valid index i adds to
\* matched one entry pairing the event with the i-th candidate counted from 0
\* and nothing to unmatched, an empty line adds the event to unmatched and
\* nothing to matched, and the candidates stay as they were.
C6_SelectionByIndex ==
    [][pc = "prompt" =>
        /\ ValidIndex(chosen', Len(result.invoices)) =>
              /\ matched' = Append(matched,
                     <<shifts[si], event,
                       result.invoices[parse_usize(trim(chosen')) + 1]>>)
              /\ unmatched' = unmatched
        /\ trim(chosen') = <<>> =>
              /\ unmatched' = Append(unmatched, <<shifts[si], event>>)
              /\ matched' = matched
        /\ already_paid' = already_paid
        /\ result' = result
        /\ invoices' = invoices]_vars

\* C6 witness: index 1 typed, and the second candidate matched
C6_Witness ==
    /\ result.kind = "UnpaidMultiple"
    /\ parses_usize(trim(chosen))
    /\ parse_usize(trim(chosen)) = 1
    /\ matched # <<>>
    /\ matched[Len(matched)] = <<shifts[si], event, result.invoices[2]>>

\* C7: a selection that is not a number, or not an index of the list, does
\* not end the run: the event goes to unmatched and the loop goes on.
C7_InvalidSelectionDefers ==
    [][(/\ pc = "prompt"
        /\ trim(chosen') # <<>>
        /\ ~ValidIndex(chosen', Len(result.invoices))) =>
            /\ exit' = "running"
            /\ pc' = "events"
            /\ unmatched' = Append(unmatched, <<shifts[si], event>>)]_vars

\* C8: once built, the payment objects are one per entry of matched, in
\* order, with the invoice id, the event amount in major units and the date
\* of the shift; none is built before, and with matched empty there is none
\* and the PUT is not attempted.
C8_PaymentsFromMatched ==
    /\ put = "none" => payment_objects = <<>>
    /\ put # "none" =>
          /\ Len(payment_objects) = Len(matched)
          /\ \A k \in 1..Len(matched) :
                /\ payment_objects[k].invoice.invoice_id = matched[k][3].invoice_id
                /\ ~payment_objects[k].amount.huge
                /\ 200 * payment_objects[k].amount.v
                      = 1000 * matched[k][2].event_money.amount.v
                /\ payment_objects[k].date = matched[k][1].created_at[1]
          /\ matched = <<>> <=> put = "skipped"

\* C8 witness: payments submitted for two matches, next to an event that is
\* already paid
C8_Witness ==
    /\ put = "ok"
    /\ Len(payment_objects) = 2
    /\ already_paid # <<>>

\* an amount find_match has to normalize for the event has no decimal form
AmountNotNormalizable ==
    \/ event.event_money.amount.huge
    \/ \E i \in 1..Len(invoices) :
          /\ invoices[i].invoice_type = "ACCPAY"
          /\ Plausible(event, invoices[i])
          /\ invoices[i].amount_due.huge \/ invoices[i].amount_paid.huge

\* C9: when an amount of the event, or of an invoice compared with it, cannot
\* be normalized, the run goes on and the event is reported, not dropped.
C9_AmountFailureConfined ==
    (called /\ AmountNotNormalizable) =>
        /\ exit # "panic"
        /\ \E k \in 1..Len(unmatched) : unmatched[k][2] = event

====
